---------------------------- MODULE Spec2Model ----------------------------
(***************************************************************************)
(* scripts/local-llm-server.py: the regex PII detector (PIIDetector) and   *)
(* the HTTP handler (LLMRequestHandler) that serves it.                    *)
(*                                                                         *)
(* The pattern catalog is transcribed rule by rule as regular-expression   *)
(* syntax trees; re.finditer is modelled by a backtracking matcher with    *)
(* Python's priorities (leftmost start, greedy repeats, alternatives left  *)
(* to right) under re.IGNORECASE.  Offsets are zero-based and half-open,   *)
(* as match.start() and match.end() are.                                   *)
(***************************************************************************)
EXTENDS Integers, Sequences, FiniteSets, TLC

VARIABLES
  patterns,   \* LLMRequestHandler.detector.patterns: the dict's items in insertion
              \* order, <<>> while the class body has not run yet
  pc,         \* pc[h]: where handler h stands in do_POST and what it calls
  request,    \* request[h]: the request h is serving, [path, body]
  text,       \* text[h]: analyze_text's argument
  scanned,    \* scanned[h]: how many matches analyze_text's loops have examined
  results,    \* results[h]: analyze_text's local results
  analysis,   \* analysis[h]: handle_generate's local analysis, analyze_text's return value
  error,      \* error[h]: the exception the except clause caught, "" if none
  wire        \* wire[h]: what h wrote to its connection, in order

vars == <<patterns, pc, request, text, scanned, results, analysis, error, wire>>

----------------------------------------------------------------------------
(* Characters and character classes                                        *)

\* The ASCII digits and letters in code-point order: ranges such as [A-Z]
\* or [0-9a-fA-F] are intervals of it.
Alphanumerics == "0123456789ABCDEFGHIJKLMNOPQRSTUVWXYZabcdefghijklmnopqrstuvwxyz"

CharAt(s, i) == SubSeq(s, i, i)

Ord(c) == CHOOSE i \in 1..Len(Alphanumerics) : CharAt(Alphanumerics, i) = c

\* A class range a-b
R(a, b) == { CharAt(Alphanumerics, i) : i \in Ord(a)..Ord(b) }

Digit == R("0", "9")
Upper == R("A", "Z")
Lower == R("a", "z")
\* \s
Space == {" ", "\t", "\n", "\r", "\f"}
\* \w, which decides \b
Word == Digit \cup Upper \cup Lower \cup {"_"}

SwapCase(c) ==
  IF c \in Upper THEN CharAt(Alphanumerics, Ord(c) + 26)
  ELSE IF c \in Lower THEN CharAt(Alphanumerics, Ord(c) - 26)
  ELSE c

\* re.IGNORECASE: a class holds a letter in either case
IgnoreCase(S) == S \cup { SwapCase(c) : c \in S }

----------------------------------------------------------------------------
(* Regular-expression syntax trees                                         *)

\* \b
B == [k |-> "b"]
\* [...], \d, \s
In(S) == [k |-> "in", s |-> IgnoreCase(S)]
\* a run of literal characters
Lit(w) == [k |-> "cat", xs |-> [i \in 1..Len(w) |-> In({CharAt(w, i)})]]
\* juxtaposition
Cat(xs) == [k |-> "cat", xs |-> xs]
\* (?:a|b|...)
Alt(xs) == [k |-> "alt", xs |-> xs]
\* x{lo,hi}, greedy
Rep(x, lo, hi) == [k |-> "rep", x |-> x, lo |-> lo, hi |-> hi, unbounded |-> FALSE]
\* x{lo,}, greedy
AtLeast(x, lo) == [k |-> "rep", x |-> x, lo |-> lo, hi |-> lo, unbounded |-> TRUE]
\* x{n}
Times(x, n) == Rep(x, n, n)
\* x?
Opt(x) == Rep(x, 0, 1)
\* x+
Plus(x) == AtLeast(x, 1)
\* x*
Star(x) == AtLeast(x, 0)

----------------------------------------------------------------------------
(* PIIDetector.__init__: the pattern catalog                               *)

\* One declared pattern: its source text and what sre parses it to
Rule(src, ast) == [pattern |-> src, regex |-> ast]

\* self.patterns['PERSON'] (lines 33-42)
PERSON ==
  << Rule("\\b[A-Z][a-z]+ [A-Z][a-z]+\\b",
          Cat(<<B, In(R("A", "Z")), Plus(In(R("a", "z"))), Lit(" "), In(R("A", "Z")),
          Plus(In(R("a", "z"))), B>>)),
     Rule("\\b(?:Mr|Ms|Mrs|Dr|Prof|Sir|Dame|Lord|Lady)\\.?\\s+[A-Z][a-z]+\\b",
          Cat(<<B, Alt(<<Lit("Mr"), Lit("Ms"), Lit("Mrs"), Lit("Dr"), Lit("Prof"), Lit("Sir"),
          Lit("Dame"), Lit("Lord"), Lit("Lady")>>), Opt(Lit(".")), Plus(In(Space)), In(R("A",
          "Z")), Plus(In(R("a", "z"))), B>>)),
     Rule("\\b[A-Z][a-z]+,?\\s+(?:Jr|Sr|III|IV|V|VI|VII|VIII|IX|X)\\.?\\b",
          Cat(<<B, In(R("A", "Z")), Plus(In(R("a", "z"))), Opt(Lit(",")), Plus(In(Space)),
          Alt(<<Lit("Jr"), Lit("Sr"), Lit("III"), Lit("IV"), Lit("V"), Lit("VI"), Lit("VII"),
          Lit("VIII"), Lit("IX"), Lit("X")>>), Opt(Lit(".")), B>>)),
     Rule("\\b[A-Z][a-z]+\\s+[A-Z]\\.?\\s+[A-Z][a-z]+\\b",
          Cat(<<B, In(R("A", "Z")), Plus(In(R("a", "z"))), Plus(In(Space)), In(R("A", "Z")),
          Opt(Lit(".")), Plus(In(Space)), In(R("A", "Z")), Plus(In(R("a", "z"))), B>>)),
     Rule("\\b[A-Z]\\.?\\s+[A-Z][a-z]+\\b",
          Cat(<<B, In(R("A", "Z")), Opt(Lit(".")), Plus(In(Space)), In(R("A", "Z")),
          Plus(In(R("a", "z"))), B>>)),
     Rule("\\bMy name is\\s+[A-Z][a-z]+(?:\\s+[A-Z][a-z]+)*\\b",
          Cat(<<B, Lit("My name is"), Plus(In(Space)), In(R("A", "Z")), Plus(In(R("a", "z"))),
          Star(Cat(<<Plus(In(Space)), In(R("A", "Z")), Plus(In(R("a", "z")))>>)), B>>)),
     Rule("\\bI am\\s+[A-Z][a-z]+(?:\\s+[A-Z][a-z]+)*\\b",
          Cat(<<B, Lit("I am"), Plus(In(Space)), In(R("A", "Z")), Plus(In(R("a", "z"))),
          Star(Cat(<<Plus(In(Space)), In(R("A", "Z")), Plus(In(R("a", "z")))>>)), B>>)),
     Rule("\\bFull\\s+Name:?\\s+[A-Z][a-z]+(?:\\s+[A-Z][a-z]+)*\\b",
          Cat(<<B, Lit("Full"), Plus(In(Space)), Lit("Name"), Opt(Lit(":")), Plus(In(Space)),
          In(R("A", "Z")), Plus(In(R("a", "z"))), Star(Cat(<<Plus(In(Space)), In(R("A", "Z")),
          Plus(In(R("a", "z")))>>)), B>>)) >>

\* self.patterns['PHONE'] (lines 43-51)
PHONE ==
  << Rule("\\b\\d{3}[-.]?\\d{3}[-.]?\\d{4}\\b",
          Cat(<<B, Times(In(Digit), 3), Opt(In({"-", "."})), Times(In(Digit), 3), Opt(In({"-",
          "."})), Times(In(Digit), 4), B>>)),
     Rule("\\(\\d{3}\\)\\s?\\d{3}[-.]?\\d{4}",
          Cat(<<Lit("("), Times(In(Digit), 3), Lit(")"), Opt(In(Space)), Times(In(Digit), 3),
          Opt(In({"-", "."})), Times(In(Digit), 4)>>)),
     Rule("\\+1[-.\\s]?\\d{3}[-.\\s]?\\d{3}[-.\\s]?\\d{4}\\b",
          Cat(<<Lit("+1"), Opt(In(Space \cup {"-", "."})), Times(In(Digit), 3), Opt(In(Space \cup
          {"-", "."})), Times(In(Digit), 3), Opt(In(Space \cup {"-", "."})), Times(In(Digit), 4),
          B>>)),
     Rule("\\b1[-.\\s]?\\d{3}[-.\\s]?\\d{3}[-.\\s]?\\d{4}\\b",
          Cat(<<B, Lit("1"), Opt(In(Space \cup {"-", "."})), Times(In(Digit), 3), Opt(In(Space
          \cup {"-", "."})), Times(In(Digit), 3), Opt(In(Space \cup {"-", "."})), Times(In(Digit),
          4), B>>)),
     Rule("\\b(?:phone|mobile|cell|tel)\\.?:?\\s*\\d{3}[-.\\s]?\\d{3}[-.\\s]?\\d{4}\\b",
          Cat(<<B, Alt(<<Lit("phone"), Lit("mobile"), Lit("cell"), Lit("tel")>>), Opt(Lit(".")),
          Opt(Lit(":")), Star(In(Space)), Times(In(Digit), 3), Opt(In(Space \cup {"-", "."})),
          Times(In(Digit), 3), Opt(In(Space \cup {"-", "."})), Times(In(Digit), 4), B>>)),
     Rule("\\b\\+\\d{1,3}[-.\\s]?\\d{3,4}[-.\\s]?\\d{3,4}[-.\\s]?\\d{4}\\b",
          Cat(<<B, Lit("+"), Rep(In(Digit), 1, 3), Opt(In(Space \cup {"-", "."})), Rep(In(Digit),
          3, 4), Opt(In(Space \cup {"-", "."})), Rep(In(Digit), 3, 4), Opt(In(Space \cup {"-",
          "."})), Times(In(Digit), 4), B>>)),
     Rule("\\b\\d{3}[-.\\s]?\\d{4}\\b",
          Cat(<<B, Times(In(Digit), 3), Opt(In(Space \cup {"-", "."})), Times(In(Digit), 4), B>>))
          >>

\* self.patterns['EMAIL'] (lines 52-57)
EMAIL ==
  << Rule("\\b[A-Za-z0-9._%+-]+@[A-Za-z0-9.-]+\\.[A-Z|a-z]{2,}\\b",
          Cat(<<B, Plus(In(R("A", "Z") \cup R("a", "z") \cup R("0", "9") \cup {".", "_", "%", "+",
          "-"})), Lit("@"), Plus(In(R("A", "Z") \cup R("a", "z") \cup R("0", "9") \cup {".",
          "-"})), Lit("."), AtLeast(In(R("A", "Z") \cup R("a", "z") \cup {"|"}), 2), B>>)),
     Rule("\\b(?:email|e-mail)\\.?:?\\s*[A-Za-z0-9._%+-]+@[A-Za-z0-9.-]+\\.[A-Z|a-z]{2,}\\b",
          Cat(<<B, Alt(<<Lit("email"), Lit("e-mail")>>), Opt(Lit(".")), Opt(Lit(":")),
          Star(In(Space)), Plus(In(R("A", "Z") \cup R("a", "z") \cup R("0", "9") \cup {".", "_",
          "%", "+", "-"})), Lit("@"), Plus(In(R("A", "Z") \cup R("a", "z") \cup R("0", "9") \cup
          {".", "-"})), Lit("."), AtLeast(In(R("A", "Z") \cup R("a", "z") \cup {"|"}), 2), B>>)),
     Rule("\\bcontact\\s+me\\s+at\\s+[A-Za-z0-9._%+-]+@[A-Za-z0-9.-]+\\.[A-Z|a-z]{2,}\\b",
          Cat(<<B, Lit("contact"), Plus(In(Space)), Lit("me"), Plus(In(Space)), Lit("at"),
          Plus(In(Space)), Plus(In(R("A", "Z") \cup R("a", "z") \cup R("0", "9") \cup {".", "_",
          "%", "+", "-"})), Lit("@"), Plus(In(R("A", "Z") \cup R("a", "z") \cup R("0", "9") \cup
          {".", "-"})), Lit("."), AtLeast(In(R("A", "Z") \cup R("a", "z") \cup {"|"}), 2), B>>)),
     Rule("\\bsend\\s+to\\s+[A-Za-z0-9._%+-]+@[A-Za-z0-9.-]+\\.[A-Z|a-z]{2,}\\b",
          Cat(<<B, Lit("send"), Plus(In(Space)), Lit("to"), Plus(In(Space)), Plus(In(R("A", "Z")
          \cup R("a", "z") \cup R("0", "9") \cup {".", "_", "%", "+", "-"})), Lit("@"),
          Plus(In(R("A", "Z") \cup R("a", "z") \cup R("0", "9") \cup {".", "-"})), Lit("."),
          AtLeast(In(R("A", "Z") \cup R("a", "z") \cup {"|"}), 2), B>>)) >>

\* self.patterns['SSN'] (lines 58-63)
SSN ==
  << Rule("\\b\\d{3}-\\d{2}-\\d{4}\\b",
          Cat(<<B, Times(In(Digit), 3), Lit("-"), Times(In(Digit), 2), Lit("-"), Times(In(Digit),
          4), B>>)),
     Rule("\\b\\d{3}\\s\\d{2}\\s\\d{4}\\b",
          Cat(<<B, Times(In(Digit), 3), In(Space), Times(In(Digit), 2), In(Space),
          Times(In(Digit), 4), B>>)),
     Rule("\\b(?:ssn|social\\s+security)\\.?:?\\s*\\d{3}[-\\s]?\\d{2}[-\\s]?\\d{4}\\b",
          Cat(<<B, Alt(<<Lit("ssn"), Cat(<<Lit("social"), Plus(In(Space)), Lit("security")>>)>>),
          Opt(Lit(".")), Opt(Lit(":")), Star(In(Space)), Times(In(Digit), 3), Opt(In(Space \cup
          {"-"})), Times(In(Digit), 2), Opt(In(Space \cup {"-"})), Times(In(Digit), 4), B>>)),
     Rule("\\b\\d{9}\\b",
          Cat(<<B, Times(In(Digit), 9), B>>)) >>

\* self.patterns['ADDRESS'] (lines 64-71)
ADDRESS ==
  << Rule("\\d+\\s+[A-Za-z\\s]+(?:Street|St|Avenue|Ave|Road|Rd|Boulevard|Blvd|Lane|Ln|Drive|Dr|Circle|Cir|Court|Ct|Place|Pl|Way|Parkway|Pkwy)\\b",
          Cat(<<Plus(In(Digit)), Plus(In(Space)), Plus(In(R("A", "Z") \cup R("a", "z") \cup
          Space)), Alt(<<Lit("Street"), Lit("St"), Lit("Avenue"), Lit("Ave"), Lit("Road"),
          Lit("Rd"), Lit("Boulevard"), Lit("Blvd"), Lit("Lane"), Lit("Ln"), Lit("Drive"),
          Lit("Dr"), Lit("Circle"), Lit("Cir"), Lit("Court"), Lit("Ct"), Lit("Place"), Lit("Pl"),
          Lit("Way"), Lit("Parkway"), Lit("Pkwy")>>), B>>)),
     Rule("\\b(?:Address|Addr)\\.?:?\\s*\\d+\\s+[A-Za-z\\s]+(?:Street|St|Avenue|Ave|Road|Rd|Boulevard|Blvd|Lane|Ln|Drive|Dr)\\b",
          Cat(<<B, Alt(<<Lit("Address"), Lit("Addr")>>), Opt(Lit(".")), Opt(Lit(":")),
          Star(In(Space)), Plus(In(Digit)), Plus(In(Space)), Plus(In(R("A", "Z") \cup R("a", "z")
          \cup Space)), Alt(<<Lit("Street"), Lit("St"), Lit("Avenue"), Lit("Ave"), Lit("Road"),
          Lit("Rd"), Lit("Boulevard"), Lit("Blvd"), Lit("Lane"), Lit("Ln"), Lit("Drive"),
          Lit("Dr")>>), B>>)),
     Rule("\\bP\\.?O\\.?\\s+Box\\s+\\d+\\b",
          Cat(<<B, Lit("P"), Opt(Lit(".")), Lit("O"), Opt(Lit(".")), Plus(In(Space)), Lit("Box"),
          Plus(In(Space)), Plus(In(Digit)), B>>)),
     Rule("\\b\\d{1,5}\\s+(?:North|South|East|West|N|S|E|W)\\.?\\s+[A-Za-z\\s]+(?:Street|St|Avenue|Ave|Road|Rd)\\b",
          Cat(<<B, Rep(In(Digit), 1, 5), Plus(In(Space)), Alt(<<Lit("North"), Lit("South"),
          Lit("East"), Lit("West"), Lit("N"), Lit("S"), Lit("E"), Lit("W")>>), Opt(Lit(".")),
          Plus(In(Space)), Plus(In(R("A", "Z") \cup R("a", "z") \cup Space)), Alt(<<Lit("Street"),
          Lit("St"), Lit("Avenue"), Lit("Ave"), Lit("Road"), Lit("Rd")>>), B>>)),
     Rule("\\b(?:Apt|Apartment|Unit|Suite|Ste)\\.?\\s*\\#?\\d+[A-Za-z]?\\b",
          Cat(<<B, Alt(<<Lit("Apt"), Lit("Apartment"), Lit("Unit"), Lit("Suite"), Lit("Ste")>>),
          Opt(Lit(".")), Star(In(Space)), Opt(Lit("#")), Plus(In(Digit)), Opt(In(R("A", "Z") \cup
          R("a", "z"))), B>>)),
     Rule("\\bFloor\\s+\\d+\\b|\\b\\d+(?:st|nd|rd|th)\\s+Floor\\b",
          Alt(<<Cat(<<B, Lit("Floor"), Plus(In(Space)), Plus(In(Digit)), B>>), Cat(<<B,
          Plus(In(Digit)), Alt(<<Lit("st"), Lit("nd"), Lit("rd"), Lit("th")>>), Plus(In(Space)),
          Lit("Floor"), B>>)>>)) >>

\* self.patterns['CREDIT_CARD'] (lines 72-78)
CREDIT_CARD ==
  << Rule("\\b(?:\\d{4}[-\\s]?){3}\\d{4}\\b",
          Cat(<<B, Times(Cat(<<Times(In(Digit), 4), Opt(In(Space \cup {"-"}))>>), 3),
          Times(In(Digit), 4), B>>)),
     Rule("\\b(?:4\\d{3}[-\\s]?\\d{4}[-\\s]?\\d{4}[-\\s]?\\d{4})\\b",
          Cat(<<B, Cat(<<Lit("4"), Times(In(Digit), 3), Opt(In(Space \cup {"-"})),
          Times(In(Digit), 4), Opt(In(Space \cup {"-"})), Times(In(Digit), 4), Opt(In(Space \cup
          {"-"})), Times(In(Digit), 4)>>), B>>)),
     Rule("\\b(?:5[1-5]\\d{2}[-\\s]?\\d{4}[-\\s]?\\d{4}[-\\s]?\\d{4})\\b",
          Cat(<<B, Cat(<<Lit("5"), In(R("1", "5")), Times(In(Digit), 2), Opt(In(Space \cup
          {"-"})), Times(In(Digit), 4), Opt(In(Space \cup {"-"})), Times(In(Digit), 4),
          Opt(In(Space \cup {"-"})), Times(In(Digit), 4)>>), B>>)),
     Rule("\\b(?:3[47]\\d{2}[-\\s]?\\d{6}[-\\s]?\\d{5})\\b",
          Cat(<<B, Cat(<<Lit("3"), In({"4", "7"}), Times(In(Digit), 2), Opt(In(Space \cup {"-"})),
          Times(In(Digit), 6), Opt(In(Space \cup {"-"})), Times(In(Digit), 5)>>), B>>)),
     Rule("\\b(?:credit\\s+card|cc)\\.?:?\\s*\\d{4}[-\\s]?\\d{4}[-\\s]?\\d{4}[-\\s]?\\d{4}\\b",
          Cat(<<B, Alt(<<Cat(<<Lit("credit"), Plus(In(Space)), Lit("card")>>), Lit("cc")>>),
          Opt(Lit(".")), Opt(Lit(":")), Star(In(Space)), Times(In(Digit), 4), Opt(In(Space \cup
          {"-"})), Times(In(Digit), 4), Opt(In(Space \cup {"-"})), Times(In(Digit), 4),
          Opt(In(Space \cup {"-"})), Times(In(Digit), 4), B>>)) >>

\* self.patterns['DATE_OF_BIRTH'] (lines 79-84)
DATE_OF_BIRTH ==
  << Rule("\\b(?:dob|date\\s+of\\s+birth|birth\\s+date)\\.?:?\\s*\\d{1,2}[-/]\\d{1,2}[-/]\\d{2,4}\\b",
          Cat(<<B, Alt(<<Lit("dob"), Cat(<<Lit("date"), Plus(In(Space)), Lit("of"),
          Plus(In(Space)), Lit("birth")>>), Cat(<<Lit("birth"), Plus(In(Space)),
          Lit("date")>>)>>), Opt(Lit(".")), Opt(Lit(":")), Star(In(Space)), Rep(In(Digit), 1, 2),
          In({"-", "/"}), Rep(In(Digit), 1, 2), In({"-", "/"}), Rep(In(Digit), 2, 4), B>>)),
     Rule("\\b\\d{1,2}[-/]\\d{1,2}[-/]\\d{4}\\b",
          Cat(<<B, Rep(In(Digit), 1, 2), In({"-", "/"}), Rep(In(Digit), 1, 2), In({"-", "/"}),
          Times(In(Digit), 4), B>>)),
     Rule("\\b(?:January|February|March|April|May|June|July|August|September|October|November|December|Jan|Feb|Mar|Apr|May|Jun|Jul|Aug|Sep|Oct|Nov|Dec)\\.?\\s+\\d{1,2},?\\s+\\d{4}\\b",
          Cat(<<B, Alt(<<Lit("January"), Lit("February"), Lit("March"), Lit("April"), Lit("May"),
          Lit("June"), Lit("July"), Lit("August"), Lit("September"), Lit("October"),
          Lit("November"), Lit("December"), Lit("Jan"), Lit("Feb"), Lit("Mar"), Lit("Apr"),
          Lit("May"), Lit("Jun"), Lit("Jul"), Lit("Aug"), Lit("Sep"), Lit("Oct"), Lit("Nov"),
          Lit("Dec")>>), Opt(Lit(".")), Plus(In(Space)), Rep(In(Digit), 1, 2), Opt(Lit(",")),
          Plus(In(Space)), Times(In(Digit), 4), B>>)),
     Rule("\\b\\d{1,2}\\s+(?:January|February|March|April|May|June|July|August|September|October|November|December|Jan|Feb|Mar|Apr|May|Jun|Jul|Aug|Sep|Oct|Nov|Dec)\\.?\\s+\\d{4}\\b",
          Cat(<<B, Rep(In(Digit), 1, 2), Plus(In(Space)), Alt(<<Lit("January"), Lit("February"),
          Lit("March"), Lit("April"), Lit("May"), Lit("June"), Lit("July"), Lit("August"),
          Lit("September"), Lit("October"), Lit("November"), Lit("December"), Lit("Jan"),
          Lit("Feb"), Lit("Mar"), Lit("Apr"), Lit("May"), Lit("Jun"), Lit("Jul"), Lit("Aug"),
          Lit("Sep"), Lit("Oct"), Lit("Nov"), Lit("Dec")>>), Opt(Lit(".")), Plus(In(Space)),
          Times(In(Digit), 4), B>>)) >>

\* self.patterns['DRIVER_LICENSE'] (lines 85-89)
DRIVER_LICENSE ==
  << Rule("\\b(?:dl|driver\\s+license|drivers?\\s+license)\\.?:?\\s*[A-Z]{1,2}\\d{6,8}\\b",
          Cat(<<B, Alt(<<Lit("dl"), Cat(<<Lit("driver"), Plus(In(Space)), Lit("license")>>),
          Cat(<<Lit("driver"), Opt(Lit("s")), Plus(In(Space)), Lit("license")>>)>>),
          Opt(Lit(".")), Opt(Lit(":")), Star(In(Space)), Rep(In(R("A", "Z")), 1, 2),
          Rep(In(Digit), 6, 8), B>>)),
     Rule("\\b[A-Z]\\d{7,8}\\b",
          Cat(<<B, In(R("A", "Z")), Rep(In(Digit), 7, 8), B>>)),
     Rule("\\blicense\\s+number\\.?:?\\s*[A-Z0-9]{6,12}\\b",
          Cat(<<B, Lit("license"), Plus(In(Space)), Lit("number"), Opt(Lit(".")), Opt(Lit(":")),
          Star(In(Space)), Rep(In(R("A", "Z") \cup R("0", "9")), 6, 12), B>>)) >>

\* self.patterns['PASSPORT'] (lines 90-93)
PASSPORT ==
  << Rule("\\b(?:passport|pp)\\.?:?\\s*[A-Z0-9]{6,9}\\b",
          Cat(<<B, Alt(<<Lit("passport"), Lit("pp")>>), Opt(Lit(".")), Opt(Lit(":")),
          Star(In(Space)), Rep(In(R("A", "Z") \cup R("0", "9")), 6, 9), B>>)),
     Rule("\\bpassport\\s+number\\.?:?\\s*[A-Z0-9]{6,9}\\b",
          Cat(<<B, Lit("passport"), Plus(In(Space)), Lit("number"), Opt(Lit(".")), Opt(Lit(":")),
          Star(In(Space)), Rep(In(R("A", "Z") \cup R("0", "9")), 6, 9), B>>)) >>

\* self.patterns['BANK_ACCOUNT'] (lines 94-98)
BANK_ACCOUNT ==
  << Rule("\\b(?:account|acc)\\.?\\s+(?:number|#)\\.?:?\\s*\\d{8,17}\\b",
          Cat(<<B, Alt(<<Lit("account"), Lit("acc")>>), Opt(Lit(".")), Plus(In(Space)),
          Alt(<<Lit("number"), Lit("#")>>), Opt(Lit(".")), Opt(Lit(":")), Star(In(Space)),
          Rep(In(Digit), 8, 17), B>>)),
     Rule("\\b(?:routing|rt)\\.?\\s+(?:number|#)\\.?:?\\s*\\d{9}\\b",
          Cat(<<B, Alt(<<Lit("routing"), Lit("rt")>>), Opt(Lit(".")), Plus(In(Space)),
          Alt(<<Lit("number"), Lit("#")>>), Opt(Lit(".")), Opt(Lit(":")), Star(In(Space)),
          Times(In(Digit), 9), B>>)),
     Rule("\\biban\\.?:?\\s*[A-Z]{2}\\d{2}[A-Z0-9]{4,30}\\b",
          Cat(<<B, Lit("iban"), Opt(Lit(".")), Opt(Lit(":")), Star(In(Space)), Times(In(R("A",
          "Z")), 2), Times(In(Digit), 2), Rep(In(R("A", "Z") \cup R("0", "9")), 4, 30), B>>)) >>

\* self.patterns['IP_ADDRESS'] (lines 99-102)
IP_ADDRESS ==
  << Rule("\\b(?:\\d{1,3}\\.){3}\\d{1,3}\\b",
          Cat(<<B, Times(Cat(<<Rep(In(Digit), 1, 3), Lit(".")>>), 3), Rep(In(Digit), 1, 3), B>>)),
     Rule("\\b(?:[0-9a-fA-F]{1,4}:){7}[0-9a-fA-F]{1,4}\\b",
          Cat(<<B, Times(Cat(<<Rep(In(R("0", "9") \cup R("a", "f") \cup R("A", "F")), 1, 4),
          Lit(":")>>), 7), Rep(In(R("0", "9") \cup R("a", "f") \cup R("A", "F")), 1, 4), B>>)) >>

\* self.patterns['MAC_ADDRESS'] (lines 103-105)
MAC_ADDRESS ==
  << Rule("\\b(?:[0-9a-fA-F]{2}[:-]){5}[0-9a-fA-F]{2}\\b",
          Cat(<<B, Times(Cat(<<Times(In(R("0", "9") \cup R("a", "f") \cup R("A", "F")), 2),
          In({":", "-"})>>), 5), Times(In(R("0", "9") \cup R("a", "f") \cup R("A", "F")), 2),
          B>>)) >>

\* self.patterns['USERNAME'] (lines 106-109)
USERNAME ==
  << Rule("\\b(?:username|user\\s+name|login)\\.?:?\\s*[A-Za-z0-9._-]{3,20}\\b",
          Cat(<<B, Alt(<<Lit("username"), Cat(<<Lit("user"), Plus(In(Space)), Lit("name")>>),
          Lit("login")>>), Opt(Lit(".")), Opt(Lit(":")), Star(In(Space)), Rep(In(R("A", "Z") \cup
          R("a", "z") \cup R("0", "9") \cup {".", "_", "-"}), 3, 20), B>>)),
     Rule("\\b@[A-Za-z0-9._-]{3,20}\\b",
          Cat(<<B, Lit("@"), Rep(In(R("A", "Z") \cup R("a", "z") \cup R("0", "9") \cup {".", "_",
          "-"}), 3, 20), B>>)) >>

\* self.patterns['MEDICAL_ID'] (lines 110-113)
MEDICAL_ID ==
  << Rule("\\b(?:patient\\s+id|medical\\s+record)\\.?:?\\s*\\d{6,12}\\b",
          Cat(<<B, Alt(<<Cat(<<Lit("patient"), Plus(In(Space)), Lit("id")>>),
          Cat(<<Lit("medical"), Plus(In(Space)), Lit("record")>>)>>), Opt(Lit(".")),
          Opt(Lit(":")), Star(In(Space)), Rep(In(Digit), 6, 12), B>>)),
     Rule("\\b(?:mrn|medical\\s+record\\s+number)\\.?:?\\s*\\d{6,12}\\b",
          Cat(<<B, Alt(<<Lit("mrn"), Cat(<<Lit("medical"), Plus(In(Space)), Lit("record"),
          Plus(In(Space)), Lit("number")>>)>>), Opt(Lit(".")), Opt(Lit(":")), Star(In(Space)),
          Rep(In(Digit), 6, 12), B>>)) >>

\* self.patterns['COORDINATES'] (lines 114-118)
COORDINATES ==
  << Rule("\\b[-+]?\\d{1,3}\\.\\d+,\\s*[-+]?\\d{1,3}\\.\\d+\\b",
          Cat(<<B, Opt(In({"-", "+"})), Rep(In(Digit), 1, 3), Lit("."), Plus(In(Digit)), Lit(","),
          Star(In(Space)), Opt(In({"-", "+"})), Rep(In(Digit), 1, 3), Lit("."), Plus(In(Digit)),
          B>>)),
     Rule("\\b(?:lat|latitude)\\.?:?\\s*[-+]?\\d{1,3}\\.\\d+\\b",
          Cat(<<B, Alt(<<Lit("lat"), Lit("latitude")>>), Opt(Lit(".")), Opt(Lit(":")),
          Star(In(Space)), Opt(In({"-", "+"})), Rep(In(Digit), 1, 3), Lit("."), Plus(In(Digit)),
          B>>)),
     Rule("\\b(?:lon|lng|longitude)\\.?:?\\s*[-+]?\\d{1,3}\\.\\d+\\b",
          Cat(<<B, Alt(<<Lit("lon"), Lit("lng"), Lit("longitude")>>), Opt(Lit(".")),
          Opt(Lit(":")), Star(In(Space)), Opt(In({"-", "+"})), Rep(In(Digit), 1, 3), Lit("."),
          Plus(In(Digit)), B>>)) >>

\* self.patterns['VEHICLE_ID'] (lines 119-122)
VEHICLE_ID ==
  << Rule("\\b(?:vin|vehicle\\s+id)\\.?:?\\s*[A-HJ-NPR-Z0-9]{17}\\b",
          Cat(<<B, Alt(<<Lit("vin"), Cat(<<Lit("vehicle"), Plus(In(Space)), Lit("id")>>)>>),
          Opt(Lit(".")), Opt(Lit(":")), Star(In(Space)), Times(In(R("A", "H") \cup R("J", "N")
          \cup R("R", "Z") \cup R("0", "9") \cup {"P"}), 17), B>>)),
     Rule("\\b(?:license\\s+plate|plate)\\.?:?\\s*[A-Z0-9]{2,8}\\b",
          Cat(<<B, Alt(<<Cat(<<Lit("license"), Plus(In(Space)), Lit("plate")>>), Lit("plate")>>),
          Opt(Lit(".")), Opt(Lit(":")), Star(In(Space)), Rep(In(R("A", "Z") \cup R("0", "9")), 2,
          8), B>>)) >>

----------------------------------------------------------------------------
(* re.finditer(pattern, text, re.IGNORECASE)                               *)

\* \b at offset i: exactly one of the characters around i is a word character
AtBoundary(txt, i) ==
  LET before == i > 0 /\ CharAt(txt, i) \in Word
      after  == i < Len(txt) /\ CharAt(txt, i + 1) \in Word
  IN  before /= after

\* An iteration of a repeat that consumed nothing is not repeated
Progress(ends, i) == SelectSeq(ends, LAMBDA j : j /= i)

\* A greedy repeat of a single character class: the run of characters of the
\* class at offset i is taken as far as the repeat allows, then given back one
\* character at a time
EndsRun(re, txt, i) ==
  LET InClass(j) == CharAt(txt, i + j) \in re.x.s
      run   == CHOOSE n \in 0..(Len(txt) - i) :
                 /\ \A j \in 1..n : InClass(j)
                 /\ n = Len(txt) - i \/ ~InClass(n + 1)
      most  == IF re.unbounded \/ run < re.hi THEN run ELSE re.hi
  IN  IF most < re.lo THEN <<>>
      ELSE [n \in 1..(most - re.lo + 1) |-> i + most - n + 1]

RECURSIVE Ends(_, _, _), EndsFrom(_, _, _), EndsCat(_, _, _, _),
          EndsAlt(_, _, _, _, _), EndsRep(_, _, _, _), EndsRepFrom(_, _, _, _)

\* The offsets at which a match of re that starts at offset i can end, in the
\* order the backtracking matcher tries them: its first element is the end of
\* the match the matcher reports.
Ends(re, txt, i) ==
  CASE re.k = "in"  -> IF i < Len(txt) /\ CharAt(txt, i + 1) \in re.s
                       THEN <<i + 1>> ELSE <<>>
    [] re.k = "b"   -> IF AtBoundary(txt, i) THEN <<i>> ELSE <<>>
    [] re.k = "cat" -> EndsCat(re.xs, 1, txt, <<i>>)
    [] re.k = "alt" -> EndsAlt(re.xs, 1, Len(re.xs), txt, i)
    [] re.k = "rep" -> IF re.x.k = "in" THEN EndsRun(re, txt, i)
                       ELSE EndsRep(re, 0, txt, i)

\* Ends from each of the offsets starts, in order
EndsFrom(re, txt, starts) ==
  IF starts = <<>> THEN <<>>
  ELSE IF Len(starts) = 1 THEN Ends(re, txt, starts[1])
  ELSE LET half == Len(starts) \div 2
       IN  EndsFrom(re, txt, SubSeq(starts, 1, half))
           \o EndsFrom(re, txt, SubSeq(starts, half + 1, Len(starts)))

\* The elements xs[n], xs[n + 1], ... one after the other
EndsCat(xs, n, txt, starts) ==
  IF n > Len(xs) \/ starts = <<>> THEN starts
  ELSE EndsCat(xs, n + 1, txt, EndsFrom(xs[n], txt, starts))

\* The alternatives xs[first], ..., xs[last], tried from left to right
EndsAlt(xs, first, last, txt, i) ==
  IF first > last THEN <<>>
  ELSE IF first = last THEN Ends(xs[first], txt, i)
  ELSE LET half == (first + last) \div 2
       IN  EndsAlt(xs, first, half, txt, i) \o EndsAlt(xs, half + 1, last, txt, i)

\* A greedy repeat after count iterations: one more iteration first, then stop
EndsRep(re, count, txt, i) ==
  LET again == IF re.unbounded \/ count < re.hi
               THEN EndsRepFrom(re, count + 1, txt, Progress(Ends(re.x, txt, i), i))
               ELSE <<>>
      stop  == IF count >= re.lo THEN <<i>> ELSE <<>>
  IN  again \o stop

EndsRepFrom(re, count, txt, starts) ==
  IF starts = <<>> THEN <<>>
  ELSE IF Len(starts) = 1 THEN EndsRep(re, count, txt, starts[1])
  ELSE LET half == Len(starts) \div 2
       IN  EndsRepFrom(re, count, txt, SubSeq(starts, 1, half))
           \o EndsRepFrom(re, count, txt, SubSeq(starts, half + 1, Len(starts)))

RECURSIVE Scan(_, _, _)
\* The matches from offset pos on: leftmost first, each search resuming where
\* the previous match ended (one further after an empty match)
Scan(re, txt, pos) ==
  LET starts == { p \in pos..Len(txt) : Ends(re, txt, p) /= <<>> }
  IN  IF starts = {} THEN <<>>
      ELSE LET first == CHOOSE p \in starts : \A q \in starts : p <= q
               last  == Head(Ends(re, txt, first))
           IN  <<[start |-> first, end |-> last]>>
               \o Scan(re, txt, IF last = first THEN first + 1 ELSE last)

----------------------------------------------------------------------------
(* The detector's data                                                     *)

\* The dict literal of __init__, in insertion order
Declared ==
  << [entity_type |-> "PERSON", rules |-> PERSON],
     [entity_type |-> "PHONE", rules |-> PHONE],
     [entity_type |-> "EMAIL", rules |-> EMAIL],
     [entity_type |-> "SSN", rules |-> SSN],
     [entity_type |-> "ADDRESS", rules |-> ADDRESS],
     [entity_type |-> "CREDIT_CARD", rules |-> CREDIT_CARD],
     [entity_type |-> "DATE_OF_BIRTH", rules |-> DATE_OF_BIRTH],
     [entity_type |-> "DRIVER_LICENSE", rules |-> DRIVER_LICENSE],
     [entity_type |-> "PASSPORT", rules |-> PASSPORT],
     [entity_type |-> "BANK_ACCOUNT", rules |-> BANK_ACCOUNT],
     [entity_type |-> "IP_ADDRESS", rules |-> IP_ADDRESS],
     [entity_type |-> "MAC_ADDRESS", rules |-> MAC_ADDRESS],
     [entity_type |-> "USERNAME", rules |-> USERNAME],
     [entity_type |-> "MEDICAL_ID", rules |-> MEDICAL_ID],
     [entity_type |-> "COORDINATES", rules |-> COORDINATES],
     [entity_type |-> "VEHICLE_ID", rules |-> VEHICLE_ID] >>

RECURSIVE PatternsOf(_, _)
\* The pattern strings of a rule list, from the n-th on
PatternsOf(rules, n) ==
  IF n > Len(rules) THEN <<>>
  ELSE <<rules[n].pattern>> \o PatternsOf(rules, n + 1)

RECURSIVE ItemsOf(_, _)
ItemsOf(decl, n) ==
  IF n > Len(decl) THEN <<>>
  ELSE <<[entity_type |-> decl[n].entity_type, rules |-> PatternsOf(decl[n].rules, 1)]>>
       \o ItemsOf(decl, n + 1)

\* self.patterns as __init__ leaves it: the pattern strings, not compiled
Catalog == ItemsOf(Declared, 1)

RECURSIVE RulesOf(_, _)
RulesOf(decl, n) ==
  IF n > Len(decl) THEN <<>> ELSE decl[n].rules \o RulesOf(decl, n + 1)

AllRules == RulesOf(Declared, 1)

RECURSIVE CompiledFrom(_, _)
\* re.compile of the patterns lo..hi of the catalog
CompiledFrom(lo, hi) ==
  IF lo = hi THEN AllRules[lo].pattern :> AllRules[lo].regex
  ELSE LET mid == (lo + hi) \div 2
       IN  CompiledFrom(lo, mid) @@ CompiledFrom(mid + 1, hi)

\* What re compiles each pattern string of the catalog to.  A string outside
\* its domain does not compile: re.compile raises re.error.
Compiled == CompiledFrom(1, Len(AllRules))

\* A pattern string with an unbalanced parenthesis, which re refuses
InvalidPattern == "(?:unterminated"

RECURSIVE WithPattern(_, _, _, _)
\* The items pats from the n-th on, with p declared last under entity_type
WithPattern(pats, n, entity_type, p) ==
  IF n > Len(pats) THEN <<>>
  ELSE <<IF pats[n].entity_type = entity_type
         THEN [pats[n] EXCEPT !.rules = Append(@, p)] ELSE pats[n]>>
       \o WithPattern(pats, n + 1, entity_type, p)

\* What the dict literal may declare: the catalog as it stands, and the
\* catalog with a pattern that does not compile among the PHONE patterns
Declarations == { Catalog, WithPattern(Catalog, 1, "PHONE", InvalidPattern) }

----------------------------------------------------------------------------
(* Inputs                                                                  *)

\* Two handler instances, each serving one request at a time, on the one
\* detector of the class.  HTTPServer.serve_forever serves a request to its
\* end before it accepts the next: its runs are those in which one handler is
\* idle while the other works.  The runs in which the steps interleave are
\* those of the same handler class under a threading server.
Handlers == {"h1", "h2"}

\* The prompts a request may carry
Prompts ==
  << "",
     "hello.",
     "No identifying info here.",
     "Contact John Smith at john.smith@example.com or 555-123-4567",
     "123 Main Street Ave",
     "Dr. Jane Smith",
     "SSN: 123-45-6789",
     "555-123-4567 John Smith",
     "John Smith(555) 123-4567",
     "555-123-4567 or 555-987-6543",
     "bob@example.com" >>

Texts == { Prompts[i] : i \in 1..Len(Prompts) }

\* Request bodies: a JSON object with a string prompt, one without a prompt,
\* one whose prompt is not a string, and bytes that are not JSON
Bodies ==
  { [kind |-> "prompt", prompt |-> t] : t \in Texts }
  \cup { [kind |-> k, prompt |-> ""] : k \in {"no_prompt", "prompt_not_str", "not_json"} }

NoBody == [kind |-> "", prompt |-> ""]

Paths == {"/api/generate", "/api/pull", "/api/other"}

RECURSIVE ScanRules(_, _, _)
\* The matches of each of the patterns lo..hi in t
ScanRules(t, lo, hi) ==
  IF lo = hi THEN AllRules[lo].pattern :> Scan(AllRules[lo].regex, t, 0)
  ELSE LET mid == (lo + hi) \div 2
       IN  ScanRules(t, lo, mid) @@ ScanRules(t, mid + 1, hi)

RECURSIVE ScanTexts(_, _)
ScanTexts(lo, hi) ==
  IF lo = hi THEN Prompts[lo] :> ScanRules(Prompts[lo], 1, Len(AllRules))
  ELSE LET mid == (lo + hi) \div 2
       IN  ScanTexts(lo, mid) @@ ScanTexts(mid + 1, hi)

\* The matches of every compilable pattern in every prompt
MatchTable == ScanTexts(1, Len(Prompts))

\* re.finditer(p, t, re.IGNORECASE), as the list of its matches
finditer(p, t) == MatchTable[t][p]

----------------------------------------------------------------------------
(* PIIDetector.analyze_text                                                *)

\* 0.85, in hundredths
HIGH_CONFIDENCE == 85

\* results kept where every call finds it instead of being made anew: a call
\* that starts while another is scanning takes over that call's dict
NewResultsShared(h) ==
  IF \E g \in Handlers \ {h} : pc[g] = "analyze_text"
  THEN results[CHOOSE g \in Handlers \ {h} : pc[g] = "analyze_text"]
  ELSE [entities |-> <<>>, confidence |-> 0, method |-> "enhanced_regex"]

\* results as analyze_text creates it
NewResults(h) == [entities |-> <<>>, confidence |-> 0, method |-> "enhanced_regex"]

\* No results: the call has not been made or has not returned
NoResults == [entities |-> <<>>, confidence |-> 0, method |-> ""]

RECURSIVE Matches(_, _, _, _)
\* What the innermost loop receives from one rule's matches, from the n-th on
Matches(entity_type, t, found, n) ==
  IF n > Len(found) THEN <<>>
  ELSE <<[raises |-> "", entity_type |-> entity_type,
          start |-> found[n].start, end |-> found[n].end,
          group |-> SubSeq(t, found[n].start + 1, found[n].end)]>>
       \o Matches(entity_type, t, found, n + 1)

\* re.finditer raising instead of yielding matches
Raises(exc) == [raises |-> exc, entity_type |-> "", start |-> 0, end |-> 0, group |-> ""]

RECURSIVE RuleLoop(_, _, _)
\* for pattern in patterns: for match in re.finditer(...), from the n-th pattern
\* on.  A pattern that does not compile raises where the loop reaches it.
RuleLoop(item, t, n) ==
  IF n > Len(item.rules) THEN <<>>
  ELSE IF item.rules[n] \notin DOMAIN Compiled THEN <<Raises("re.error")>>
  ELSE Matches(item.entity_type, t, finditer(item.rules[n], t), 1)
       \o RuleLoop(item, t, n + 1)

RECURSIVE CategoryLoop(_, _, _)
\* for entity_type, patterns in self.patterns.items(), from the n-th item on
CategoryLoop(pats, t, n) ==
  IF n > Len(pats) THEN <<>>
  ELSE RuleLoop(pats[n], t, 1) \o CategoryLoop(pats, t, n + 1)

\* The matches the three nested loops hand to the loop body, in order; the
\* loops end at the first element that raises
Loop(pats, t) == CategoryLoop(pats, t, 1)

\* The test with closed spans: a match that starts where an entity ends counts
\* as overlapping it
OverlapsEntityClosed(entity, m) ==
  \/ entity.start <= m.start /\ m.start <= entity.end
  \/ entity.start <= m.end /\ m.end <= entity.end

\* entity['start'] <= match.start() < entity['end'] or
\* entity['start'] < match.end() <= entity['end']
OverlapsEntity(entity, m) ==
  \/ entity.start <= m.start /\ m.start < entity.end
  \/ entity.start < m.end /\ m.end <= entity.end

\* The test against the entity accepted last only
overlapsLast(entities, m) ==
  entities /= <<>> /\ OverlapsEntity(entities[Len(entities)], m)

\* overlaps = any(... for entity in results['entities'])
overlaps(entities, m) ==
  \E i \in 1..Len(entities) : OverlapsEntity(entities[i], m)

\* The dict appended for a match
Entity(m) ==
  [entity |-> m.entity_type, confidence |-> HIGH_CONFIDENCE,
   start |-> m.start, end |-> m.end, word |-> m.group]

\* The entity put where its start offset places it instead of at the end
AppendEntitySorted(entities, e) ==
  LET before == SelectSeq(entities, LAMBDA x : x.start <= e.start)
      after  == SelectSeq(entities, LAMBDA x : x.start > e.start)
  IN  before \o <<e>> \o after

\* results['entities'].append(...)
AppendEntity(entities, e) == Append(entities, e)

\* The confidence set without looking at the entities
AggregateConfidenceFixed(entities) == HIGH_CONFIDENCE

\* results['confidence'] = 0.85 if results['entities'] else 0.0
AggregateConfidence(entities) == IF entities /= <<>> THEN HIGH_CONFIDENCE ELSE 0

\* The match the loop body would receive next
Candidate(h) == Loop(patterns, text[h])[scanned[h] + 1]

\* One pass of the loop body, for the next match
analyze_text_match(h) ==
  /\ pc[h] = "analyze_text"
  /\ scanned[h] < Len(Loop(patterns, text[h]))
  /\ LET m == Candidate(h)
     IN  IF m.raises /= ""
         THEN \* the exception leaves analyze_text and reaches handle_generate
              /\ pc' = [pc EXCEPT ![h] = "generate_except"]
              /\ error' = [error EXCEPT ![h] = m.raises]
              /\ results' = [results EXCEPT ![h] = NoResults]
              /\ UNCHANGED scanned
         ELSE /\ scanned' = [scanned EXCEPT ![h] = @ + 1]
              /\ results' = [results EXCEPT ![h].entities =
                               IF overlaps(@, m) THEN @ ELSE AppendEntity(@, Entity(m))]
              /\ UNCHANGED <<pc, error>>
  /\ UNCHANGED <<patterns, request, text, analysis, wire>>

\* The loops are exhausted: set the confidence and return results
analyze_text_return(h) ==
  /\ pc[h] = "analyze_text"
  /\ scanned[h] = Len(Loop(patterns, text[h]))
  /\ LET returned == [results[h] EXCEPT
                        !.confidence = AggregateConfidence(results[h].entities)]
     IN  /\ results' = [results EXCEPT ![h] = returned]
         /\ analysis' = [analysis EXCEPT ![h] = returned]
  /\ pc' = [pc EXCEPT ![h] = "generate_respond"]
  /\ UNCHANGED <<patterns, request, text, scanned, error, wire>>

----------------------------------------------------------------------------
(* LLMRequestHandler                                                       *)

\* What a handler writes to its connection
StatusAndHeaders(code) == [chunk |-> "head", code |-> code, complete |-> TRUE, json |-> <<>>]
\* send_error(code, message): status line, headers and the error page
ErrorResponse(code) == [chunk |-> "error", code |-> code, complete |-> TRUE, json |-> <<>>]
\* A body, or the part of it that left before the write raised
Body(json, complete) == [chunk |-> "body", code |-> 0, complete |-> complete, json |-> json]

\* set(e['entity'] for e in analysis['entities'])
EntityTypes(entities) == { entities[i].entity : i \in 1..Len(entities) }

\* The response dict of handle_generate
Response(a) ==
  [model |-> "replit-pii-detector",
   created_at |-> "2024-01-01T00:00:00Z",
   response |-> IF a.entities /= <<>>
                THEN [message |-> "PII detected", entity_summary |-> EntityTypes(a.entities),
                      found |-> Len(a.entities), confidence |-> a.confidence,
                      method |-> a.method]
                ELSE [message |-> "No PII detected in the provided text.",
                      entity_summary |-> {}, found |-> 0, confidence |-> 0, method |-> ""],
   done |-> TRUE,
   analysis |-> a]

\* The mock status lines of handle_pull
PullResponses ==
  << [status |-> "pulling manifest"], [status |-> "downloading model"],
     [status |-> "verifying sha256"], [status |-> "success"] >>

\* How many status lines h has written completely
LinesWritten(h) ==
  Cardinality({ i \in 1..Len(wire[h]) : wire[h][i].chunk = "body" /\ wire[h][i].complete })

\* do_POST: route on the path
do_POST(h) ==
  /\ pc[h] = "idle"
  /\ patterns /= <<>>
  /\ \E path \in Paths :
       \E body \in IF path = "/api/generate" THEN Bodies ELSE {NoBody} :
         /\ request' = [request EXCEPT ![h] = [path |-> path, body |-> body]]
         /\ IF path = "/api/generate" THEN
              /\ pc' = [pc EXCEPT ![h] = "handle_generate"]
              /\ UNCHANGED wire
            ELSE IF path = "/api/pull" THEN
              /\ pc' = [pc EXCEPT ![h] = "handle_pull"]
              /\ UNCHANGED wire
            ELSE
              /\ pc' = [pc EXCEPT ![h] = "done"]
              /\ wire' = [wire EXCEPT ![h] = Append(@, ErrorResponse(404))]
  /\ UNCHANGED <<patterns, text, scanned, results, analysis, error>>

\* handle_generate up to the call of analyze_text: read and parse the body,
\* take the prompt, enter analyze_text
handle_generate_read(h) ==
  /\ pc[h] = "handle_generate"
  /\ LET body == request[h].body
     IN  CASE body.kind = "not_json" ->
                \* json.loads raises
                /\ pc' = [pc EXCEPT ![h] = "generate_except"]
                /\ error' = [error EXCEPT ![h] = "JSONDecodeError"]
                /\ UNCHANGED <<text, scanned, results>>
           [] body.kind = "prompt_not_str" ->
                \* the first re.finditer of analyze_text raises
                /\ pc' = [pc EXCEPT ![h] = "generate_except"]
                /\ error' = [error EXCEPT ![h] = "TypeError"]
                /\ UNCHANGED <<text, scanned, results>>
           [] OTHER ->
                /\ pc' = [pc EXCEPT ![h] = "analyze_text"]
                /\ text' = [text EXCEPT ![h] = body.prompt]
                /\ scanned' = [scanned EXCEPT ![h] = 0]
                /\ results' = [results EXCEPT ![h] = NewResults(h)]
                /\ UNCHANGED error
  /\ UNCHANGED <<patterns, request, analysis, wire>>

\* send_response(200), send_header, end_headers: the head goes out, or the
\* write raises
handle_generate_head(h) ==
  /\ pc[h] = "generate_respond"
  /\ \/ /\ wire' = [wire EXCEPT ![h] = Append(@, StatusAndHeaders(200))]
        /\ pc' = [pc EXCEPT ![h] = "generate_write"]
        /\ UNCHANGED error
     \/ /\ pc' = [pc EXCEPT ![h] = "generate_except"]
        /\ error' = [error EXCEPT ![h] = "OSError"]
        /\ UNCHANGED wire
  /\ UNCHANGED <<patterns, request, text, scanned, results, analysis>>

\* self.wfile.write(json.dumps(response).encode('utf-8')): the body goes out,
\* or the write raises with none or some of it written
handle_generate_write(h) ==
  /\ pc[h] = "generate_write"
  /\ \/ /\ wire' = [wire EXCEPT ![h] = Append(@, Body(Response(analysis[h]), TRUE))]
        /\ pc' = [pc EXCEPT ![h] = "done"]
        /\ UNCHANGED error
     \/ /\ \E some \in BOOLEAN :
             wire' = [wire EXCEPT ![h] =
                        IF some THEN Append(@, Body(Response(analysis[h]), FALSE)) ELSE @]
        /\ pc' = [pc EXCEPT ![h] = "generate_except"]
        /\ error' = [error EXCEPT ![h] = "OSError"]
  /\ UNCHANGED <<patterns, request, text, scanned, results, analysis>>

\* except Exception as e: self.send_error(500, ...), whatever was written
\* before; its own write goes out or raises out of the handler
handle_generate_except(h) ==
  /\ pc[h] = "generate_except"
  /\ \E written \in BOOLEAN :
       wire' = [wire EXCEPT ![h] = IF written THEN Append(@, ErrorResponse(500)) ELSE @]
  /\ pc' = [pc EXCEPT ![h] = "done"]
  /\ UNCHANGED <<patterns, request, text, scanned, results, analysis, error>>

\* handle_pull: send_response(200), send_header, end_headers
handle_pull_head(h) ==
  /\ pc[h] = "handle_pull"
  /\ \/ /\ wire' = [wire EXCEPT ![h] = Append(@, StatusAndHeaders(200))]
        /\ pc' = [pc EXCEPT ![h] = "pull_write"]
        /\ UNCHANGED error
     \/ /\ pc' = [pc EXCEPT ![h] = "pull_except"]
        /\ error' = [error EXCEPT ![h] = "OSError"]
        /\ UNCHANGED wire
  /\ UNCHANGED <<patterns, request, text, scanned, results, analysis>>

\* for resp in responses: write the line and flush
handle_pull_write(h) ==
  /\ pc[h] = "pull_write"
  /\ LET n == LinesWritten(h) + 1
     IN  \/ /\ wire' = [wire EXCEPT ![h] = Append(@, Body(PullResponses[n], TRUE))]
            /\ pc' = [pc EXCEPT ![h] = IF n = Len(PullResponses) THEN "done" ELSE "pull_write"]
            /\ UNCHANGED error
         \/ /\ \E some \in BOOLEAN :
                 wire' = [wire EXCEPT ![h] =
                            IF some THEN Append(@, Body(PullResponses[n], FALSE)) ELSE @]
            /\ pc' = [pc EXCEPT ![h] = "pull_except"]
            /\ error' = [error EXCEPT ![h] = "OSError"]
  /\ UNCHANGED <<patterns, request, text, scanned, results, analysis>>

\* except Exception as e: self.send_error(500, ...)
handle_pull_except(h) ==
  /\ pc[h] = "pull_except"
  /\ \E written \in BOOLEAN :
       wire' = [wire EXCEPT ![h] = IF written THEN Append(@, ErrorResponse(500)) ELSE @]
  /\ pc' = [pc EXCEPT ![h] = "done"]
  /\ UNCHANGED <<patterns, request, text, scanned, results, analysis, error>>

\* The request is over: the connection closes and the handler instance, with
\* its locals, is dropped
finish(h) ==
  /\ pc[h] = "done"
  /\ pc' = [pc EXCEPT ![h] = "idle"]
  /\ request' = [request EXCEPT ![h] = [path |-> "", body |-> NoBody]]
  /\ text' = [text EXCEPT ![h] = ""]
  /\ scanned' = [scanned EXCEPT ![h] = 0]
  /\ results' = [results EXCEPT ![h] = NoResults]
  /\ analysis' = [analysis EXCEPT ![h] = NoResults]
  /\ error' = [error EXCEPT ![h] = ""]
  /\ wire' = [wire EXCEPT ![h] = <<>>]
  /\ UNCHANGED patterns

----------------------------------------------------------------------------
(* The server                                                              *)

\* PIIDetector.__init__: self.patterns is assigned the dict as declared; no
\* pattern is compiled or otherwise examined
PIIDetector_init ==
  /\ patterns = <<>>
  /\ \E declared \in Declarations : patterns' = declared
  /\ UNCHANGED <<pc, request, text, scanned, results, analysis, error, wire>>

\* No request is under way
Idle ==
  /\ pc = [h \in Handlers |-> "idle"]
  /\ request = [h \in Handlers |-> [path |-> "", body |-> NoBody]]
  /\ text = [h \in Handlers |-> ""]
  /\ scanned = [h \in Handlers |-> 0]
  /\ results = [h \in Handlers |-> NoResults]
  /\ analysis = [h \in Handlers |-> NoResults]
  /\ error = [h \in Handlers |-> ""]
  /\ wire = [h \in Handlers |-> <<>>]

\* The class body has run: detector = PIIDetector()
Init == patterns = Catalog /\ Idle

Next ==
  \E h \in Handlers :
    \/ do_POST(h)
    \/ handle_generate_read(h)
    \/ analyze_text_match(h)
    \/ analyze_text_return(h)
    \/ handle_generate_head(h)
    \/ handle_generate_write(h)
    \/ handle_generate_except(h)
    \/ handle_pull_head(h)
    \/ handle_pull_write(h)
    \/ handle_pull_except(h)
    \/ finish(h)

Spec == Init /\ [][Next]_vars

\* The module is being loaded: the class body of LLMRequestHandler has not run
InitCfg == patterns = <<>> /\ Idle

NextCfg == PIIDetector_init \/ Next

\* The server from the construction of the detector on, for each declaration
SpecCfg == InitCfg /\ [][NextCfg]_vars

----------------------------------------------------------------------------
(* Properties                                                              *)

\* analyze_text has returned to handle_generate, which has not gone on yet
Returned(h) == pc[h] = "generate_respond"

\* Two half-open spans overlap: s1 <= s2 < e1 or s2 <= s1 < e2
SpansOverlap(a, b) ==
  \/ a.start <= b.start /\ b.start < a.end
  \/ b.start <= a.start /\ a.start < b.end

\* The span of m lies within the span of entity
Contains(entity, m) == entity.start <= m.start /\ m.end <= entity.end

\* The match the loop body received last
Examined(h) == Loop(patterns, text[h])[scanned[h]]

\* The loop body of analyze_text runs once for h in this step
Examines(h) == pc[h] = "analyze_text" /\ scanned'[h] = scanned[h] + 1

RECURSIVE Accepted(_, _)
\* The entities a call on its own accepts from the first k matches of ms
Accepted(ms, k) ==
  IF k = 0 THEN <<>>
  ELSE LET es == Accepted(ms, k - 1)
       IN  IF overlaps(es, ms[k]) THEN es ELSE Append(es, Entity(ms[k]))

\* What one call of analyze_text on a detector nobody else uses returns for t
IsolatedCall(t) ==
  LET ms == Loop(Catalog, t)
      es == Accepted(ms, Len(ms))
  IN  [entities |-> es, confidence |-> AggregateConfidence(es), method |-> "enhanced_regex"]

\* Where the loops first hand over a match that makes the entity e
Discovered(h, e) ==
  LET ms == Loop(patterns, text[h])
      at == { n \in 1..Len(ms) : Entity(ms[n]) = e }
  IN  CHOOSE n \in at : \A k \in at : n <= k

\* C1: no two entities of a returned list have overlapping half-open spans,
\* also when a later candidate strictly contains an accepted entity.
C1_NoOverlappingEntities ==
  \A h \in Handlers :
    Returned(h) =>
      LET es == analysis[h].entities
      IN  \A i, j \in 1..Len(es) : i /= j => ~SpansOverlap(es[i], es[j])

\* C2: for "No identifying info here." analyze_text returns no entity and
\* confidence 0.0.
C2_NoIdentifyingInfo ==
  \A h \in Handlers :
    Returned(h) /\ text[h] = "No identifying info here." =>
      analysis[h].entities = <<>> /\ analysis[h].confidence = 0

\* C3: for "Contact John Smith at john.smith@example.com or 555-123-4567"
\* analyze_text returns an EMAIL entity "john.smith@example.com" and a PHONE
\* entity "555-123-4567".
C3_EmailAndPhone ==
  \A h \in Handlers :
    Returned(h)
    /\ text[h] = "Contact John Smith at john.smith@example.com or 555-123-4567" =>
      LET es == analysis[h].entities
      IN  /\ \E i \in 1..Len(es) :
               es[i].entity = "EMAIL" /\ es[i].word = "john.smith@example.com"
          /\ \E i \in 1..Len(es) :
               es[i].entity = "PHONE" /\ es[i].word = "555-123-4567"

\* C4: a returned result has confidence 0.85 exactly when it has entities,
\* confidence 0.0 exactly when it has none, and the method "enhanced_regex".
C4_AggregateConfidence ==
  \A h \in Handlers :
    Returned(h) =>
      LET a == analysis[h]
      IN  /\ a.confidence = HIGH_CONFIDENCE <=> a.entities /= <<>>
          /\ a.confidence = 0 <=> a.entities = <<>>
          /\ a.method = "enhanced_regex"

\* One call has returned without entities and another with entities
C4_Witness ==
  \E h, g \in Handlers :
    /\ Returned(h) /\ analysis[h].entities = <<>>
    /\ Returned(g) /\ analysis[g].entities /= <<>>

\* No entity lies within the span of an entity accepted before it
C5_NoneInsideEarlier ==
  \A h \in Handlers :
    LET es == results[h].entities
    IN  \A i, j \in 1..Len(es) : i < j => ~Contains(es[i], es[j])

\* A candidate within the span of an accepted entity leaves the list as it is
C5_InsideIsDiscarded ==
  \A h \in Handlers :
    Examines(h)
    /\ (\E i \in 1..Len(results[h].entities) :
          Contains(results[h].entities[i], Candidate(h))) =>
      results'[h].entities = results[h].entities

\* C5: a candidate whose span lies within the span of an entity accepted
\* earlier is never added, and the accepted entity stays as it is: first
\* match wins.
C5_FirstMatchWins == []C5_NoneInsideEarlier /\ [][C5_InsideIsDiscarded]_vars

\* The candidate examined last lies within an entity of another category and
\* was discarded
C5_Witness ==
  \E h \in Handlers :
    /\ pc[h] = "analyze_text" /\ scanned[h] > 0
    /\ LET es == results[h].entities
       IN  /\ \E i \in 1..Len(es) :
                Contains(es[i], Examined(h)) /\ es[i].entity /= Examined(h).entity_type
           /\ \A i \in 1..Len(es) : es[i] /= Entity(Examined(h))

\* C6: a pattern that does not compile makes the construction of the detector
\* fail, so no request ever meets it: analyze_text never raises re.error.
C6_InvalidPatternNeverAtRequestTime ==
  \A h \in Handlers : error[h] /= "re.error"

\* C7: the calls on the shared detector, interleaved or not, leave the catalog
\* as it is, each holds the entities it would have accepted on its own, and
\* each returns what an isolated call on its text returns.
C7_IsolatedCalls ==
  /\ patterns = Catalog
  /\ \A h \in Handlers :
       /\ pc[h] = "analyze_text" =>
            results[h].entities = Accepted(Loop(Catalog, text[h]), scanned[h])
       /\ Returned(h) => analysis[h] = IsolatedCall(text[h])

\* A call has returned entities while another call on the detector is in its
\* loops with an entity accepted
C7_Witness ==
  \E h, g \in Handlers :
    /\ Returned(h) /\ analysis[h].entities /= <<>>
    /\ pc[g] = "analyze_text" /\ scanned[g] > 0 /\ results[g].entities /= <<>>

\* C8: whatever step of handle_generate or handle_pull fails, no error
\* response follows a 200 status line, headers or part of a body: an error
\* response is the first thing on the connection.
C8_NoErrorAfterSuccess ==
  \A h \in Handlers :
    \A i \in 1..Len(wire[h]) : wire[h][i].chunk = "error" => i = 1

\* C9: a candidate that overlaps no accepted entity (half-open spans) is
\* appended at once, and a candidate is dropped only if it overlaps one.
C9_DiscardedOnlyForOverlap ==
  [][\A h \in Handlers :
       Examines(h) =>
         LET m   == Candidate(h)
             es  == results[h].entities
             hit == \E i \in 1..Len(es) : SpansOverlap(es[i], m)
         IN  /\ ~hit => results'[h].entities = Append(es, Entity(m))
             /\ results'[h].entities = es => hit]_vars

\* The candidate examined last starts where an accepted entity ends and was
\* accepted
C9_Witness ==
  \E h \in Handlers :
    /\ pc[h] = "analyze_text" /\ scanned[h] > 0
    /\ LET es == results[h].entities
       IN  /\ es /= <<>> /\ es[Len(es)] = Entity(Examined(h))
           /\ \E i \in 1..(Len(es) - 1) : es[i].end = Examined(h).start

\* The entities stand in the order in which the loops discovered them
C10_InOrderOfDiscovery ==
  \A h \in Handlers :
    LET es == results[h].entities
        ms == Loop(patterns, text[h])
    IN  /\ \A i \in 1..Len(es) : \E n \in 1..scanned[h] : Entity(ms[n]) = es[i]
        /\ \A i, j \in 1..Len(es) : i < j => Discovered(h, es[i]) < Discovered(h, es[j])

\* While analyze_text runs the list changes by a single append at most
C10_AppendOnly ==
  \A h \in Handlers :
    pc[h] = "analyze_text" =>
      LET es == results[h].entities
      IN  \/ results'[h].entities = es
          \/ /\ Len(results'[h].entities) = Len(es) + 1
             /\ SubSeq(results'[h].entities, 1, Len(es)) = es

\* C10: the entities are in order of discovery (category, then rule, then
\* position in the text), not sorted by start offset, and the list grows by
\* appending only: an accepted entity keeps its place and its contents.
C10_DiscoveryOrder == []C10_InOrderOfDiscovery /\ [][C10_AppendOnly]_vars

\* A returned list in which an entity stands before one that starts earlier
C10_Witness ==
  \E h \in Handlers :
    /\ Returned(h)
    /\ LET es == analysis[h].entities
       IN  \E i, j \in 1..Len(es) : i < j /\ es[i].start > es[j].start

=============================================================================
